---- MODULE Spec2Model ----
(***************************************************************************)
(* Model of the rsdsl ntp daemon (src/src/main.rs): the startup load of    *)
(* the persisted time, the select loop of main, one sync cycle             *)
(* (sync_time) split at its await points, and the SIGTERM checkpoint.      *)
(*                                                                         *)
(* Number representation.  TLC has 32-bit integers, so the machine words   *)
(* of the program are scaled: a byte has ByteRadix values instead of 256.  *)
(* An i64 is still I64Bytes = 8 bytes, big-endian, two's complement        *)
(* (ByteRadix^8 values), the NTP seconds field is still U32Bytes = 4 bytes *)
(* and one NTP era is ByteRadix^4 seconds.  EPOCH_OFFSET and the build     *)
(* timestamp keep their proportion to the era.                             *)
(***************************************************************************)
EXTENDS Integers, Sequences, FiniteSets, TLC

VARIABLES
    pc,          \* position of the single flow of control of main
    file,        \* /data/ntp.last_unix: [kind, bytes]
    sysclock,    \* CLOCK_REALTIME, epoch seconds
    resync,      \* the tokio interval: [period, ready]
    sigPending,  \* a SIGTERM notification waits in the signal stream
    last,        \* sync_time: the floor read at line 120
    raw,         \* sync_time: time.sec of the NTP answer
    t,           \* sync_time: the disambiguated time
    res,         \* result of the running/last call ("none", "Ok" or an Error variant)
    notified,    \* number of SIGUSR2 rounds sent to rsdsl_dhcp6 (counted to MaxCycles)
    cycles,      \* number of sync cycles started (counted to MaxCycles)
    advances,    \* number of steps the wall clock has advanced
    cycleStart,  \* history: file and clock when the current cycle started
    committed,   \* history: the current cycle has set the clock
    okRaw,       \* history: raw timestamp of the previous successful cycle, -1 if none
    maxWritten   \* history: largest value this run wrote to the file, [some, val]

vars == <<pc, file, sysclock, resync, sigPending, last, raw, t, res, notified,
          cycles, advances, cycleStart, committed, okRaw, maxWritten>>

----------------------------------------------------------------------------
(* Bounds of the model *)

ByteRadix == 2          \* values of one byte (256 in the program)
MaxCycles == 3          \* sync cycles and notifications are counted up to this
MaxAdvance == 2         \* wall clock advances per run
MaxEras == 4            \* floors of the component specification: within MaxEras eras of 0

(* Program constants *)

I64Bytes == 8           \* size of i64, the [..8] of last_time_unix
U32Bytes == 4           \* size of time.sec (u32); 2_i64.pow(32) is one era
INITIAL_INTERVAL == 30
INTERVAL == 3600

RECURSIVE Pow(_, _)
Pow(b, n) == IF n = 0 THEN 1 ELSE b * Pow(b, n - 1)

I64Card == Pow(ByteRadix, I64Bytes)
MaxI64 == (I64Card - 1) \div 2
MinI64 == MaxI64 + 1 - I64Card
I64 == MinI64..MaxI64

ERA == Pow(ByteRadix, U32Bytes)                 \* 2_i64.pow(32)
U32 == 0..(ERA - 1)
EPOCH_OFFSET == (ERA * 33706) \div 65536        \* 2208988800 = 0x83AA7E80 of 2^32
SOURCE_TIMESTAMP == (ERA * 2) \div 5            \* env!("SOURCE_TIMESTAMP"), a time in era 0

----------------------------------------------------------------------------
(* i64::to_be_bytes and i64::from_be_bytes *)

Byte == 0..(ByteRadix - 1)

\* Variant: the bytes in little-endian order
ToLeBytes(v) ==
    LET u == v % I64Card
    IN  [i \in 1..I64Bytes |-> (u \div Pow(ByteRadix, i - 1)) % ByteRadix]

ToBeBytes(v) ==
    LET u == v % I64Card
    IN  [i \in 1..I64Bytes |-> (u \div Pow(ByteRadix, I64Bytes - i)) % ByteRadix]

RECURSIVE Unsigned(_)
Unsigned(b) ==
    IF Len(b) = 0 THEN 0
    ELSE Unsigned(SubSeq(b, 1, Len(b) - 1)) * ByteRadix + b[Len(b)]

FromBeBytes(b) ==
    LET u == Unsigned(b)
    IN  IF u > MaxI64 THEN u - I64Card ELSE u

(* The persisted file *)

Missing == [kind |-> "missing", bytes |-> <<>>]
Unreadable == [kind |-> "unreadable", bytes |-> <<>>]
Data(b) == [kind |-> "data", bytes |-> b]

\* fs::read(LAST_UNIX_PATH)
FsRead(f) ==
    IF f.kind = "data" THEN [ok |-> TRUE, bytes |-> f.bytes]
    ELSE [ok |-> FALSE, bytes |-> <<>>]

\* fs::write(LAST_UNIX_PATH, bytes): replaces the content, or fails and leaves
\* the file as it was or already truncated
FsWrite(f, b) ==
    {[ok |-> TRUE, file |-> Data(b)],
     [ok |-> FALSE, file |-> f],
     [ok |-> FALSE, file |-> Data(<<>>)]}

\* Variant: the file is never found
last_time_unix_none(f) == [outcome |-> "none", val |-> 0]

\* last_time_unix: None on a read error, a panic of the slice [..8] on fewer
\* than 8 bytes, else the first 8 bytes as a big-endian i64
last_time_unix(f) ==
    LET r == FsRead(f)
    IN  IF ~r.ok THEN [outcome |-> "none", val |-> 0]
        ELSE IF Len(r.bytes) < I64Bytes THEN [outcome |-> "panic", val |-> 0]
        ELSE [outcome |-> "some", val |-> FromBeBytes(SubSeq(r.bytes, 1, I64Bytes))]

----------------------------------------------------------------------------
(* The era loop of sync_time, lines 129-132 *)

\* Variant: two eras are added per iteration
AddTwoEras(x, checks) ==
    IF x + 2 * ERA > MaxI64
    THEN IF checks THEN [panic |-> TRUE, val |-> 0]
                   ELSE [panic |-> FALSE, val |-> x + 2 * ERA - I64Card]
    ELSE [panic |-> FALSE, val |-> x + 2 * ERA]

\* t += 2_i64.pow(32): a panic with overflow checks, two's complement wrap without
AddEra(x, checks) ==
    IF x + ERA > MaxI64
    THEN IF checks THEN [panic |-> TRUE, val |-> 0]
                   ELSE [panic |-> FALSE, val |-> x + ERA - I64Card]
    ELSE [panic |-> FALSE, val |-> x + ERA]

\* Variant: the loop also runs when t equals the floor
LoopGuardInclusive(x, floor) == x <= floor

LoopGuard(x, floor) == x < floor

\* The loop, run until it exits, panics, or has come back to a value it had
\* (n counts the values t can still take): then it never exits.
RECURSIVE EraLoop(_, _, _, _)
EraLoop(x, floor, checks, n) ==
    IF ~LoopGuard(x, floor) THEN [outcome |-> "ok", val |-> x]
    ELSE IF n = 0 THEN [outcome |-> "hang", val |-> 0]
    ELSE LET a == AddEra(x, checks)
         IN  IF a.panic THEN [outcome |-> "panic", val |-> 0]
             ELSE EraLoop(a.val, floor, checks, n - 1)

\* Variant: the epoch offset is not subtracted
disambiguate_no_offset(r, floor, checks) ==
    EraLoop(r, floor, checks, I64Card \div ERA)

disambiguate(r, floor, checks) ==
    EraLoop(r - EPOCH_OFFSET, floor, checks, I64Card \div ERA)

----------------------------------------------------------------------------
(* Inputs *)

\* contents of the file when the daemon starts
InitFiles ==
    {Missing, Unreadable, Data(<<>>), Data(<<1, 0, 1>>)}
    \cup {Data(ToBeBytes(v)) : v \in {0 - ERA - 4, SOURCE_TIMESTAMP + ERA, MaxI64 - 1}}
    \cup {Data(ToBeBytes(SOURCE_TIMESTAMP + 3 * ERA) \o <<1>>)}

InitClocks == {0, SOURCE_TIMESTAMP + 1}

\* answers of the NTP server
RawInputs == {0, EPOCH_OFFSET + 1, EPOCH_OFFSET + SOURCE_TIMESTAMP - 1, ERA - 1}

NoSnapshot == [file |-> Missing, clock |-> 0]
NoValue == [some |-> FALSE, val |-> 0]
Some(v) == [some |-> TRUE, val |-> v]
NoteWritten(v) == IF maxWritten.some /\ maxWritten.val >= v THEN maxWritten ELSE Some(v)

LoopPcs == {"select", "sync_load", "sync_resolve", "sync_query", "sync_era",
            "sync_commit", "sync_write", "sync_ret"}
FinalPcs == {"exit_ok", "exit_err", "panicked", "hung"}

\* main has not run yet
InitMain ==
    /\ pc = "init"
    /\ resync = [period |-> INITIAL_INTERVAL, ready |-> FALSE]
    /\ sigPending = FALSE
    /\ last = 0
    /\ raw = 0
    /\ t = 0
    /\ res = "none"
    /\ notified = 0
    /\ cycles = 0
    /\ advances = 0
    /\ cycleStart = NoSnapshot
    /\ committed = FALSE
    /\ okRaw = -1
    /\ maxWritten = NoValue

Init ==
    /\ file \in InitFiles
    /\ sysclock \in InitClocks
    /\ InitMain

----------------------------------------------------------------------------
(* Startup, main lines 59-70 *)

\* disk_to_sys and the match around it: an error is logged, a short file panics
DiskToSys ==
    /\ pc = "init"
    /\ LET r == FsRead(file)
       IN  IF ~r.ok
           THEN /\ pc' = "wait_link"
                /\ res' = "Io"
                /\ UNCHANGED sysclock
           ELSE IF Len(r.bytes) < I64Bytes
           THEN /\ pc' = "panicked"
                /\ UNCHANGED <<res, sysclock>>
           ELSE \E ok \in BOOLEAN :
                /\ pc' = "wait_link"
                /\ res' = IF ok THEN "Ok" ELSE "NixErrno"
                /\ sysclock' = IF ok THEN FromBeBytes(SubSeq(r.bytes, 1, I64Bytes))
                               ELSE sysclock
    /\ UNCHANGED <<file, resync, sigPending, last, raw, t, notified, cycles,
                   advances, cycleStart, committed, okRaw, maxWritten>>

\* Connection::new, link_wait_up, interval(INITIAL_INTERVAL), signal(): each `?`
\* ends main with the error; the first tick of a new interval is ready at once
WaitLink ==
    /\ pc = "wait_link"
    /\ \E e \in {"Ok", "Netlinklib", "Io"} :
        /\ res' = e
        /\ pc' = IF e = "Ok" THEN "select" ELSE "exit_err"
        /\ resync' = IF e = "Ok" THEN [period |-> INITIAL_INTERVAL, ready |-> TRUE]
                     ELSE resync
    /\ UNCHANGED <<file, sysclock, sigPending, last, raw, t, notified, cycles,
                   advances, cycleStart, committed, okRaw, maxWritten>>

----------------------------------------------------------------------------
(* Environment *)

\* SIGTERM is delivered; the signal stream keeps one pending notification
SigTerm ==
    /\ pc \in LoopPcs
    /\ ~sigPending
    /\ sigPending' = TRUE
    /\ UNCHANGED <<pc, file, sysclock, resync, last, raw, t, res, notified, cycles,
                   advances, cycleStart, committed, okRaw, maxWritten>>

\* the period of the interval has elapsed since its last tick
IntervalElapse ==
    /\ pc \in LoopPcs
    /\ ~resync.ready
    /\ resync' = [resync EXCEPT !.ready = TRUE]
    /\ UNCHANGED <<pc, file, sysclock, sigPending, last, raw, t, res, notified, cycles,
                   advances, cycleStart, committed, okRaw, maxWritten>>

\* the wall clock runs while the daemon waits in select (a cycle is short
\* against the unit of the scaled clock)
ClockAdvance ==
    /\ pc = "select"
    /\ advances < MaxAdvance
    /\ sysclock < MaxI64
    /\ sysclock' = sysclock + 1
    /\ advances' = advances + 1
    /\ UNCHANGED <<pc, file, resync, sigPending, last, raw, t, res, notified, cycles,
                   cycleStart, committed, okRaw, maxWritten>>

----------------------------------------------------------------------------
(* The main loop, lines 72-91.  tokio::select! without `biased;` polls its  *)
(* branches in random order: when both are ready either one is taken.       *)

\* resync.tick() is ready: sync_time is called
SelectTick ==
    /\ pc = "select"
    /\ resync.ready
    /\ pc' = "sync_load"
    /\ resync' = [resync EXCEPT !.ready = FALSE]
    /\ cycles' = IF cycles < MaxCycles THEN cycles + 1 ELSE cycles
    /\ cycleStart' = [file |-> file, clock |-> sysclock]
    /\ committed' = FALSE
    /\ res' = "none"
    /\ UNCHANGED <<file, sysclock, sigPending, last, raw, t, notified, advances,
                   okRaw, maxWritten>>

\* Variant: the checkpoint stores the last network time
sysnow_to_disk_last_ntp(f, now) ==
    IF now < 0 THEN {[res |-> "SystemTime", file |-> f]}
    ELSE {[res |-> IF w.ok THEN "Ok" ELSE "Io", file |-> w.file] :
            w \in FsWrite(f, ToBeBytes(t))}

\* sysnow_to_disk, lines 100-108
sysnow_to_disk(f, now) ==
    IF now < 0 THEN {[res |-> "SystemTime", file |-> f]}
    ELSE {[res |-> IF w.ok THEN "Ok" ELSE "Io", file |-> w.file] :
            w \in FsWrite(f, ToBeBytes(now))}

\* Variant: the termination branch does not return from main
TerminateNoReturn ==
    /\ pc = "select"
    /\ sigPending
    /\ \E r \in sysnow_to_disk(file, sysclock) :
        /\ file' = r.file
        /\ res' = r.res
        /\ pc' = IF r.res = "Ok" THEN "select" ELSE "exit_err"
        /\ maxWritten' = IF r.res = "Ok" THEN NoteWritten(sysclock) ELSE maxWritten
    /\ sigPending' = FALSE
    /\ UNCHANGED <<sysclock, resync, last, raw, t, notified, cycles, advances,
                   cycleStart, committed, okRaw>>

\* Variant: the signal is handled wherever main is, not only at the select
TerminateAnywhere ==
    /\ pc \in LoopPcs
    /\ sigPending
    /\ \E r \in sysnow_to_disk(file, sysclock) :
        /\ file' = r.file
        /\ res' = r.res
        /\ pc' = IF r.res = "Ok" THEN "exit_ok" ELSE "exit_err"
        /\ maxWritten' = IF r.res = "Ok" THEN NoteWritten(sysclock) ELSE maxWritten
    /\ sigPending' = FALSE
    /\ UNCHANGED <<sysclock, resync, last, raw, t, notified, cycles, advances,
                   cycleStart, committed, okRaw>>

\* sigterm.recv() is ready: checkpoint the system clock and return from main
Terminate ==
    /\ pc = "select"
    /\ sigPending
    /\ \E r \in sysnow_to_disk(file, sysclock) :
        /\ file' = r.file
        /\ res' = r.res
        /\ pc' = IF r.res = "Ok" THEN "exit_ok" ELSE "exit_err"
        /\ maxWritten' = IF r.res = "Ok" THEN NoteWritten(sysclock) ELSE maxWritten
    /\ sigPending' = FALSE
    /\ UNCHANGED <<sysclock, resync, last, raw, t, notified, cycles, advances,
                   cycleStart, committed, okRaw>>

\* Ok arm, lines 75-81: a new interval (first tick ready at once) and SIGUSR2
MatchOk ==
    /\ pc = "sync_ret"
    /\ res = "Ok"
    /\ pc' = "select"
    /\ resync' = [period |-> INTERVAL, ready |-> TRUE]
    /\ notified' = IF notified < MaxCycles THEN notified + 1 ELSE notified
    /\ okRaw' = raw
    /\ UNCHANGED <<file, sysclock, sigPending, last, raw, t, res, cycles, advances,
                   cycleStart, committed, maxWritten>>

\* Variant: a failed cycle falls back to the short interval
MatchErrFast ==
    /\ pc = "sync_ret"
    /\ res # "Ok"
    /\ pc' = "select"
    /\ resync' = [period |-> INITIAL_INTERVAL, ready |-> resync.ready]
    /\ UNCHANGED <<file, sysclock, sigPending, last, raw, t, res, notified,
                   cycles, advances, cycleStart, committed, okRaw, maxWritten>>

\* Err arm, line 82: the error is printed
MatchErr ==
    /\ pc = "sync_ret"
    /\ res # "Ok"
    /\ pc' = "select"
    /\ UNCHANGED <<file, sysclock, resync, sigPending, last, raw, t, res, notified,
                   cycles, advances, cycleStart, committed, okRaw, maxWritten>>

----------------------------------------------------------------------------
(* sync_time, lines 119-141 *)

\* lines 120-122: the floor, or the build timestamp when there is none
SyncLoad ==
    /\ pc = "sync_load"
    /\ LET r == last_time_unix(file)
       IN  IF r.outcome = "panic"
           THEN /\ pc' = "panicked"
                /\ UNCHANGED last
           ELSE /\ pc' = "sync_resolve"
                /\ last' = IF r.outcome = "some" THEN r.val ELSE SOURCE_TIMESTAMP
    /\ UNCHANGED <<file, sysclock, resync, sigPending, raw, t, res, notified, cycles,
                   advances, cycleStart, committed, okRaw, maxWritten>>

\* resolve_custom_dns, lines 143-153: the first address, NoHostname on an empty answer
resolve_custom_dns == {"Ok", "HickoryResolve", "NoHostname"}

SyncResolve ==
    /\ pc = "sync_resolve"
    /\ \E e \in resolve_custom_dns :
        /\ res' = IF e = "Ok" THEN res ELSE e
        /\ pc' = IF e = "Ok" THEN "sync_query" ELSE "sync_ret"
    /\ UNCHANGED <<file, sysclock, resync, sigPending, last, raw, t, notified, cycles,
                   advances, cycleStart, committed, okRaw, maxWritten>>

\* line 127: ntp::request(..)?.transmit_time
SyncQuery ==
    /\ pc = "sync_query"
    /\ \/ \E r \in RawInputs :
            /\ raw' = r
            /\ pc' = "sync_era"
            /\ UNCHANGED res
       \/ /\ res' = "Ntp"
          /\ pc' = "sync_ret"
          /\ UNCHANGED raw
    /\ UNCHANGED <<file, sysclock, resync, sigPending, last, t, notified, cycles,
                   advances, cycleStart, committed, okRaw, maxWritten>>

\* lines 129-132, for a build with and without overflow checks
SyncDisambiguate ==
    /\ pc = "sync_era"
    /\ \E checks \in BOOLEAN :
        LET d == disambiguate(raw, last, checks)
        IN  /\ pc' = CASE d.outcome = "ok" -> "sync_commit"
                       [] d.outcome = "panic" -> "panicked"
                       [] OTHER -> "hung"
            /\ t' = IF d.outcome = "ok" THEN d.val ELSE t
    /\ UNCHANGED <<file, sysclock, resync, sigPending, last, raw, res, notified, cycles,
                   advances, cycleStart, committed, okRaw, maxWritten>>

\* Variant: the file is written before the clock is set
SyncCommitAfterWrite ==
    /\ pc = "sync_commit"
    /\ file' = Data(ToBeBytes(t))
    /\ \/ /\ sysclock' = t
          /\ committed' = TRUE
          /\ pc' = "sync_write"
          /\ UNCHANGED res
       \/ /\ res' = "NixErrno"
          /\ pc' = "sync_ret"
          /\ UNCHANGED <<sysclock, committed>>
    /\ UNCHANGED <<resync, sigPending, last, raw, t, notified, cycles, advances,
                   cycleStart, okRaw, maxWritten>>

\* Variant: the result of clock_settime is ignored
SyncCommitIgnoreError ==
    /\ pc = "sync_commit"
    /\ \/ /\ sysclock' = t
          /\ committed' = TRUE
       \/ UNCHANGED <<sysclock, committed>>
    /\ pc' = "sync_write"
    /\ UNCHANGED <<file, resync, sigPending, last, raw, t, res, notified, cycles,
                   advances, cycleStart, okRaw, maxWritten>>

\* lines 134-135: clock_settime(CLOCK_REALTIME, t)?
SyncCommit ==
    /\ pc = "sync_commit"
    /\ \/ /\ sysclock' = t
          /\ committed' = TRUE
          /\ pc' = "sync_write"
          /\ UNCHANGED res
       \/ /\ res' = "NixErrno"
          /\ pc' = "sync_ret"
          /\ UNCHANGED <<sysclock, committed>>
    /\ UNCHANGED <<file, resync, sigPending, last, raw, t, notified, cycles, advances,
                   cycleStart, okRaw, maxWritten>>

\* lines 137-140: fs::write(LAST_UNIX_PATH, t.to_be_bytes())?
SyncWrite ==
    /\ pc = "sync_write"
    /\ \E w \in FsWrite(file, ToBeBytes(t)) :
        /\ file' = w.file
        /\ res' = IF w.ok THEN "Ok" ELSE "Io"
        /\ maxWritten' = IF w.ok THEN NoteWritten(t) ELSE maxWritten
    /\ pc' = "sync_ret"
    /\ UNCHANGED <<sysclock, resync, sigPending, last, raw, t, notified, cycles,
                   advances, cycleStart, committed, okRaw>>

----------------------------------------------------------------------------
Next ==
    \/ DiskToSys
    \/ WaitLink
    \/ SigTerm
    \/ IntervalElapse
    \/ ClockAdvance
    \/ SelectTick
    \/ Terminate
    \/ MatchOk
    \/ MatchErr
    \/ SyncLoad
    \/ SyncResolve
    \/ SyncQuery
    \/ SyncDisambiguate
    \/ SyncCommit
    \/ SyncWrite

Spec == Init /\ [][Next]_vars

\* The random polling order of select! takes the termination branch, whenever
\* it is ready again and again, at some point.
Fairness == SF_vars(Terminate)

\* the runs of Spec that start with a valid file whose time is two eras
\* below the largest i64 (a run can raise the floor from cycle to cycle, and
\* from here every floor it can still reach is explored), clock at 0
InitLive ==
    /\ file = Data(ToBeBytes(MaxI64 - 2 * ERA))
    /\ sysclock = 0
    /\ InitMain

FairSpec == InitLive /\ [][Next]_vars /\ Fairness

----------------------------------------------------------------------------
(* Component specification: the era loop, the commit and the write of one   *)
(* cycle for every raw timestamp and a range of floors read from the file,  *)
(* and the checkpoint for a range of clock values.                          *)

FloorInputs == {f \in I64 : (0 - MaxEras * ERA <= f /\ f <= MaxEras * ERA) \/ f >= MaxI64 - ERA}
ClockInputs == {c \in FloorInputs : c >= 0}

InitUnit ==
    /\ \/ \E f \in FloorInputs, r \in U32 :
            /\ pc = "sync_era"
            /\ file = Data(ToBeBytes(f))
            /\ last = last_time_unix(file).val
            /\ raw = r
            /\ sysclock = 0
            /\ sigPending = FALSE
            /\ cycles = 1
       \/ \E c \in ClockInputs :
            /\ pc = "select"
            /\ file = Missing
            /\ last = 0
            /\ raw = 0
            /\ sysclock = c
            /\ sigPending = TRUE
            /\ cycles = 0
    /\ resync = [period |-> INITIAL_INTERVAL, ready |-> FALSE]
    /\ t = 0
    /\ res = "none"
    /\ notified = 0
    /\ advances = 0
    /\ cycleStart = [file |-> file, clock |-> sysclock]
    /\ committed = FALSE
    /\ okRaw = -1
    /\ maxWritten = NoValue

NextUnit ==
    \/ SyncDisambiguate
    \/ SyncCommit
    \/ SyncWrite
    \/ Terminate

SpecUnit == InitUnit /\ [][NextUnit]_vars

----------------------------------------------------------------------------
(* Properties *)

T0 == raw - EPOCH_OFFSET
ExactlyEightBytes(f) == f.kind = "data" /\ Len(f.bytes) = I64Bytes
\* the era loop of the current cycle has produced t
EraDone == pc \in {"sync_commit", "sync_write"} \/ (pc = "sync_ret" /\ res \in {"Ok", "Io", "NixErrno"})
\* the smallest value >= floor that is congruent to x modulo one era
SmallestCongruent(x, floor) == floor + ((x - floor) % ERA)
\* the step is the termination branch of select
TerminateStep == pc = "select" /\ pc' \in {"exit_ok", "exit_err"}

\* C1: when a termination signal and a tick are both ready at the select,
\* no sync cycle is started: the termination branch is taken.
C1_TerminationPriority ==
    [][(pc = "select" /\ sigPending /\ resync.ready) => pc' # "sync_load"]_vars

\* C2: a cycle that finds the file in any state other than exactly 8 readable
\* bytes does not panic, uses the build timestamp as its floor and commits a
\* time that is not below it.
C2_NoHistoryFallback ==
    (/\ cycles > 0
     /\ pc \in {"sync_resolve", "sync_query", "sync_era", "sync_commit", "sync_write",
                "sync_ret", "panicked"}
     /\ ~ExactlyEightBytes(cycleStart.file))
    => (/\ pc # "panicked"
        /\ last = SOURCE_TIMESTAMP
        /\ (committed => t >= SOURCE_TIMESTAMP))

\* C3 as stated: a termination handled in the steady state always overwrites
\* the file with the current system clock and exits without error.
C3_AlwaysCheckpointed ==
    [][(TerminateStep /\ resync.period = INTERVAL)
        => (pc' = "exit_ok" /\ file' = Data(ToBeBytes(sysclock)))]_vars

\* C3 amended: a termination handled in the steady state either writes the
\* current system clock (not the network time t) to the file and exits without
\* error, or, when the clock is before the epoch or the write fails, returns
\* the error from main, the file left as it was or truncated.
C3_CheckpointOrError ==
    [][(TerminateStep /\ resync.period = INTERVAL)
        => \/ /\ pc' = "exit_ok"
              /\ sysclock >= 0
              /\ file' = Data(ToBeBytes(sysclock))
           \/ /\ pc' = "exit_err"
              /\ res' \in {"Io", "SystemTime"}
              /\ (res' = "SystemTime") = (sysclock < 0)
              /\ file' \in {file, Data(<<>>)}]_vars

C3_Witness ==
    /\ pc = "exit_ok"
    /\ resync.period = INTERVAL
    /\ ~committed
    /\ cycles >= 2
    /\ sysclock # t
    /\ file = Data(ToBeBytes(sysclock))

\* C4: for every raw timestamp and floor with raw - EPOCH_OFFSET < floor the
\* era loop yields t with floor <= t < floor + ERA, the era added exactly once
\* when raw - EPOCH_OFFSET is within one era below the floor.
C4_EraBounds ==
    (pc \in {"sync_commit", "panicked", "hung"} /\ T0 < last)
    => (/\ pc = "sync_commit"
        /\ t >= last
        /\ t - last < ERA
        /\ (T0 >= last - ERA => t = T0 + ERA))

\* C5 as stated: the disambiguated time is the smallest value congruent to
\* raw - EPOCH_OFFSET modulo one era that is >= floor.
C5_SmallestCongruent ==
    pc = "sync_commit" => t = SmallestCongruent(T0, last)

\* C5 amended: the disambiguated time is the smallest value >= floor among
\* raw - EPOCH_OFFSET + k * ERA with k >= 0 (eras are added, never removed, so
\* for a floor more than an era below raw - EPOCH_OFFSET it is
\* raw - EPOCH_OFFSET); the loop yields no time exactly when that value is
\* above the largest i64.
C5_SmallestForward ==
    LET want == IF T0 >= last THEN T0 ELSE SmallestCongruent(T0, last)
    IN  /\ pc = "sync_commit" => (want <= MaxI64 /\ t = want)
        /\ pc \in {"panicked", "hung"} => want > MaxI64

C5_Witness == pc = "sync_commit" /\ T0 >= last + ERA /\ t = T0

\* C6: for every raw timestamp and floor with raw - EPOCH_OFFSET >= floor the
\* disambiguated time is raw - EPOCH_OFFSET: no era is added.
C6_NoCorrection ==
    (pc \in {"sync_commit", "panicked", "hung"} /\ T0 >= last)
    => (pc = "sync_commit" /\ t = T0)

C6_Witness == pc = "sync_commit" /\ T0 = last /\ t = T0

\* C7: a successful cycle that received the same raw timestamp as the
\* successful cycle before it leaves the file as it found it.
C7_Idempotent ==
    (pc = "sync_ret" /\ res = "Ok" /\ okRaw = raw) => file = cycleStart.file

C7_Witness ==
    /\ pc = "sync_ret"
    /\ res = "Ok"
    /\ okRaw = raw
    /\ t > T0
    /\ file = cycleStart.file

\* C8: after a successful write of t by a cycle, or of the system clock by
\* the checkpoint, last_time_unix returns Some of that value.
C8_RoundTrip ==
    /\ (pc = "sync_ret" /\ res = "Ok") => last_time_unix(file) = [outcome |-> "some", val |-> t]
    /\ pc = "exit_ok" => last_time_unix(file) = [outcome |-> "some", val |-> sysclock]

C8_Witness ==
    /\ pc = "sync_ret"
    /\ res = "Ok"
    /\ t < 0
    /\ last_time_unix(file).val = t

\* C9: a cycle that failed at the resolution, the query or the clock commit
\* has left the file as it was; one that failed at the resolution or the
\* query has not set the clock either.
C9_FailureFrame ==
    /\ (pc = "sync_ret" /\ res \in {"HickoryResolve", "NoHostname", "Ntp", "NixErrno"})
        => file = cycleStart.file
    /\ (pc = "sync_ret" /\ res \in {"HickoryResolve", "NoHostname", "Ntp"})
        => (~committed /\ sysclock = cycleStart.clock)

C9_Witness ==
    /\ pc = "sync_ret"
    /\ res = "NoHostname"
    /\ ExactlyEightBytes(file)
    /\ file = cycleStart.file
    /\ cycles >= 2

\* C10: a time committed by a cycle is not below any value this run has
\* written to the file before.
C10_CommitAboveWritten ==
    (pc = "sync_write" /\ maxWritten.some) => t >= maxWritten.val

C10_Witness ==
    /\ pc = "sync_write"
    /\ maxWritten.some
    /\ T0 < maxWritten.val
    /\ t >= maxWritten.val

\* C11: whatever the file holds at startup and whatever clock_settime
\* answers, the startup load ends without stopping the daemon, which goes on
\* to wait for the link.
C11_StartupBestEffort ==
    cycles = 0 => pc # "panicked"

\* C12: at the select the interval is the short one exactly when no cycle of
\* this run has succeeded; a failed cycle leaves the interval as it is, and
\* the long interval is never replaced by the short one.
C12_IntervalSwitch ==
    /\ [](pc = "select" => ((resync.period = INITIAL_INTERVAL) = (notified = 0)))
    /\ [][(pc = "sync_ret" /\ res # "Ok") => resync'.period = resync.period]_vars
    /\ [][resync.period = INTERVAL => resync'.period = INTERVAL]_vars

C12_Witness ==
    /\ pc = "select"
    /\ resync.period = INTERVAL
    /\ notified > 0
    /\ res \in {"NoHostname", "Ntp", "NixErrno", "Io"}

\* C13: when a cycle finishes in the steady state and the long interval has
\* not elapsed meanwhile, no tick is ready: the next cycle waits for the long
\* interval to elapse.
C13_SteadyTickSpacing ==
    [][(pc = "sync_ret" /\ pc' = "select" /\ resync.period = INTERVAL /\ ~resync.ready)
        => ~resync'.ready]_vars

CyclePcs == {"sync_load", "sync_resolve", "sync_query", "sync_era", "sync_commit",
             "sync_write", "sync_ret"}

\* C14 as stated: if every cycle finishes (main is again and again outside a
\* cycle), then once a termination signal is pending in the main loop the
\* checkpoint is eventually written and the daemon exits without error,
\* unless a cycle has panicked or stays in the era loop.
C14_EventuallyCheckpointed ==
    []<>(pc \notin CyclePcs)
        => ((sigPending /\ pc \in LoopPcs) ~> (pc \in {"exit_ok", "panicked", "hung"}))

\* C14 amended: if every cycle finishes, then once a termination signal is
\* pending in the main loop the termination branch is eventually taken and
\* main returns, without error after the checkpoint was written and with the
\* error when the checkpoint failed, unless a cycle has panicked or stays in
\* the era loop.
C14_EventuallyTerminates ==
    []<>(pc \notin CyclePcs) => ((sigPending /\ pc \in LoopPcs) ~> (pc \in FinalPcs))

C14_Witness ==
    /\ pc = "exit_ok"
    /\ cycles >= 2
    /\ file = Data(ToBeBytes(sysclock))
    /\ ~sigPending

\* C15: a failed cycle does not end the daemon: the process ends only by a
\* failed `?` before the loop or by the termination branch, so never by a
\* panic once a cycle has started.
C15_FailureNeverEnds ==
    /\ cycles > 0 => pc # "panicked"
    /\ (pc = "exit_err" /\ cycles > 0) => res \in {"Io", "SystemTime"}

\* C16: the termination branch and the start of a cycle are taken only at the
\* select, and while a cycle is in flight the file changes only by the write
\* of that cycle.
C16_NoInterleaving ==
    [][/\ (pc' = "exit_ok" \/ (pc' = "exit_err" /\ pc # "wait_link")) => pc = "select"
       /\ (pc' = "sync_load" /\ pc # "sync_load") => pc = "select"
       /\ (pc \in CyclePcs /\ file' # file)
            => (pc = "sync_write" /\ file' \in {Data(ToBeBytes(t)), Data(<<>>)})]_vars

C16_Witness ==
    /\ pc = "sync_ret"
    /\ sigPending
    /\ res = "Ok"
    /\ committed
    /\ file = Data(ToBeBytes(t))
    /\ file # cycleStart.file

\* C17: rsdsl_dhcp6 is notified at most once per run.
C17_NotifiedOnce ==
    notified <= 1

\* C18: for every raw timestamp and every floor the file can hold the era
\* loop ends, with t >= floor and without overflow.
C18_LoopTerminates ==
    /\ pc \notin {"panicked", "hung"}
    /\ pc = "sync_commit" => t >= last

\* C19: a cycle writes t to the file only after it has set the clock to t, so
\* after a successful cycle the file holds the value the clock was last set to.
C19_PersistAfterCommit ==
    /\ (pc \in CyclePcs /\ file # cycleStart.file) => committed
    /\ (pc = "sync_ret" /\ res = "Ok")
        => (committed /\ sysclock = t /\ last_time_unix(file).val = sysclock)

C19_Witness ==
    /\ pc = "sync_ret"
    /\ res = "Ok"
    /\ committed
    /\ sysclock = t
    /\ sysclock # cycleStart.clock
    /\ file = Data(ToBeBytes(t))

\* C20: every value the daemon writes to the file is not below the value the
\* file held before the write.
C20_FloorNeverDecreases ==
    [][(file' # file /\ ExactlyEightBytes(file) /\ ExactlyEightBytes(file'))
        => FromBeBytes(file'.bytes) >= FromBeBytes(file.bytes)]_vars

====
